---------------------------- MODULE Spec2Model ----------------------------
(***************************************************************************)
(* A model of three parts of the okvis2 estimation core:                   *)
(*   - opengv::absolute_pose::LoopclosureNoncentralAbsoluteAdapter, the    *)
(*     loop-closure correspondence builder (SpecAdapter);                  *)
(*   - okvis::ceres::RelativePoseError, the relative-pose residual         *)
(*     (SpecResidual, and SpecReentrant for concurrent evaluation);        *)
(*   - okvis::Component, the session container (SpecComponent).            *)
(*                                                                         *)
(* Numbers.  The model is over the integers.  Every input set below holds  *)
(* values on which the floating-point operations of the code are exact     *)
(* (divisions without remainder, square roots of perfect squares), so the  *)
(* integer result is the result the code computes.                         *)
(***************************************************************************)
EXTENDS Integers, Sequences, FiniteSets, TLC

VARIABLES
    \* ---- LoopclosureNoncentralAbsoluteAdapter: constructor arguments ----
    points,            \* const Points & points: landmark id -> homogeneous point
    nCameraSystem,     \* const NCameraSystem &: distortion type of each camera
    matches,           \* const std::map<KeypointIdentifier, uint64_t> & (entries read so far)
    frameB,            \* const MultiFrame: per-camera data read so far
    \* ---- LoopclosureNoncentralAbsoluteAdapter: constructor position and locals ----
    pc, im, k, distortionType, fu,
    \* ---- LoopclosureNoncentralAbsoluteAdapter: members ----
    points_, bearingVectors_, sigmaAngles_, camIndices_, keypointIndices_,
    camOffsets_, camRotations_,
    exception,         \* what() of the exception that left the constructor, or "none"
    lastRead,          \* the last call of an accessor by-index: [accessor, index, result]
    \* ---- RelativePoseError: members ----
    T_AB_, information_, covariance_, squareRootInformation_,
    \* ---- RelativePoseError: the calls of Evaluate / EvaluateWithMinimalJacobians in
    \* progress, one per calling thread: arguments, locals, position, output buffers ----
    calls,
    \* ---- RelativePoseError: the call of setInformation in progress in a thread that
    \* sets the information while others evaluate: argument, local, position ----
    writer,
    \* ---- Component: members ----
    imuParameters_,    \* ImuParameters
    nCameraSystem_,    \* cameras::NCameraSystem
    fullGraph_,        \* ViGraphEstimator *: what it points to
    fullGraphOwn_,     \* std::unique_ptr<ViGraphEstimator>: the content of the owned graph
    multiFrames_,      \* std::map<StateId, MultiFramePtr>
    fullGraph,         \* the graph of the caller (ViGraphEstimator &): its content, or
                       \* none once the caller has destroyed it
    \* ---- Component: the persisted sessions, and the last call of load or save ----
    storage,           \* path -> file
    lastCall           \* [op, path, ret] of the last load or save that returned

adapterArgs   == <<points, nCameraSystem, matches, frameB>>
adapterLocals == <<pc, im, k, distortionType, fu>>
adapterArrays == <<points_, bearingVectors_, sigmaAngles_, camIndices_, keypointIndices_,
                   camOffsets_, camRotations_>>
adapterVars   == <<adapterArgs, adapterLocals, adapterArrays, exception, lastRead>>

residualMembers == <<T_AB_, information_, covariance_, squareRootInformation_>>
residualVars    == <<residualMembers, calls, writer>>

componentMembers == <<imuParameters_, nCameraSystem_, fullGraph_, fullGraphOwn_, multiFrames_>>
componentVars    == <<componentMembers, fullGraph, storage, lastCall>>

vars == <<adapterVars, residualVars, componentVars>>

(***************************************************************************)
(* Bounds of the model.                                                    *)
(***************************************************************************)
\* cameras in the rig
MaxCameras == 2
\* keypoints of the query keyframe, summed over its cameras
MaxKeypoints == 3
\* threads that evaluate one residual concurrently
NumThreads == 2

(***************************************************************************)
(* Arithmetic helpers.                                                     *)
(***************************************************************************)
\* fabs
Abs(x) == IF x < 0 THEN -x ELSE x

\* a / b for doubles whose quotient is an integer
Div(a, b) == IF (a < 0) = (b < 0) THEN Abs(a) \div Abs(b) ELSE -(Abs(a) \div Abs(b))

\* sqrt of a perfect square
Sqrt(x) == CHOOSE s \in 0..x : s * s = x

Dot3(a, b) == a[1] * b[1] + a[2] * b[2] + a[3] * b[3]

\* Eigen::MatrixBase::normalize(): divides by the norm when the squared norm is positive
Normalize3(v) ==
    LET z == Dot3(v, v)
    IN  IF z > 0 THEN <<Div(v[1], Sqrt(z)), Div(v[2], Sqrt(z)), Div(v[3], Sqrt(z))>>
        ELSE v

\* indices 0..n-1 of a std::vector held as a sequence
Push(s, e) == Append(s, e)

(***************************************************************************)
(* LoopclosureNoncentralAbsoluteAdapter: inputs.                           *)
(*                                                                         *)
(* Homogeneous landmark coordinates are integers in units of 1e-9, so      *)
(* that the threshold 1.0e-8 of the constructor is WEps = 10 units.  The   *)
(* dehomogenized point (x,y,z)/w is a ratio and carries no unit.           *)
(***************************************************************************)
\* okvis::cameras::NCameraSystem::DistortionType
DistortionTypes == {"Equidistant", "RadialTangential", "NoDistortion", "RadialTangential8"}

\* the sentinel landmark id: no landmark
NoLandmark == 0

\* 1.0e-8 in units of 1e-9
WEps == 10

\* landmark tables the builder is run against: id 1 is an ordinary point (w = 1),
\* id 2 has |w| = 9e-9 (at infinity), id 3 has w = -1e-8 (the smallest accepted |w|),
\* id 4 has w = 0 in the second table; ids 4 resp. 3 are not in the table.
PointsTables ==
    { (1 :> <<2000000000, 0, -1000000000, 1000000000>>) @@ (2 :> <<20, 40, 0, 9>>)
          @@ (3 :> <<20, 0, -40, -10>>),
      (1 :> <<2000000000, 0, -1000000000, 1000000000>>) @@ (2 :> <<20, 40, 0, -9>>)
          @@ (4 :> <<1000000000, 1000000000, 1000000000, 0>>) }

\* landmark ids an association may name
LandmarkIds == 1..4

\* id of the query keyframe, and of another frame that also has associations
FrameBId == 7
OtherFrameId == 6

\* okvis::KeypointIdentifier(frameId, cameraIndex, keypointIndex)
KeypointIdentifier(frameId, cameraIndex, keypointIndex) ==
    <<frameId, cameraIndex, keypointIndex>>

\* the association map always holds an entry of another frame with the indices (0, 0)
ForeignMatches == KeypointIdentifier(OtherFrameId, 0, 0) :> 1

\* what an association map can hold for one keypoint: no entry, or a landmark id
MatchOptions ==
    {[present |-> FALSE, lmId |-> NoLandmark]}
        \cup {[present |-> TRUE, lmId |-> l] : l \in {NoLandmark} \cup LandmarkIds}

\* frameB->T_SC(im): extrinsics of camera im (offset r, rotation matrix C)
T_SC(cam) ==
    [r |-> <<cam, 0, 1>>,
     C |-> IF cam % 2 = 0 THEN <<<<1, 0, 0>>, <<0, 1, 0>>, <<0, 0, 1>>>>
           ELSE <<<<1, 0, 0>>, <<0, -1, 0>>, <<0, 0, -1>>>>]

\* frameB->geometryAs<PinholeCamera<...>>(im)->focalLengthU()
FocalLengthU(cam) == 100 * (cam + 1)

\* frameB->getKeypointSize(im, k, .)
KeypointSize(cam, kp) == 15 * (kp + 1)

\* frameB->getBackProjection(im, k, .): what it can return for keypoint (cam, kp), the
\* success flag and the content of the bearing argument afterwards
BackProjections(cam, kp) ==
    { [ok |-> TRUE, bearing |-> IF cam % 2 = 0 THEN <<0, 0, kp + 2>> ELSE <<0, -(kp + 2), 0>>],
      [ok |-> FALSE, bearing |-> <<0, 0, 0>>] }

(***************************************************************************)
(* LoopclosureNoncentralAbsoluteAdapter: the constructor.                  *)
(*                                                                         *)
(* The arguments are immutable while the constructor runs, and it reads    *)
(* each camera of frameB and each entry of matches at one place only.  The *)
(* rig and the landmark table are fixed initially; the data of a camera    *)
(* and the association of a keypoint are drawn when the constructor reads  *)
(* them and are recorded in frameB and matches from then on.               *)
(***************************************************************************)
\* nCameraSystem.numCameras() and nCameraSystem.distortionType(i), i from 0
NumCameras(ncs) == Len(ncs)
DistortionTypeOf(ncs, i) == ncs[i + 1]

\* mutant: the comparison loop starts at camera 2
MixedDistortionTypes_SkipsCamera1(ncs) ==
    \E i \in 2..(NumCameras(ncs) - 1) : DistortionTypeOf(ncs, 0) # DistortionTypeOf(ncs, i)

\* lines 63-67: some camera i >= 1 differs from camera 0
MixedDistortionTypes(ncs) ==
    \E i \in 1..(NumCameras(ncs) - 1) : DistortionTypeOf(ncs, 0) # DistortionTypeOf(ncs, i)

\* lines 79-107: the cases of the switch that read a focal length
SupportedDistortionTypes == {"RadialTangential", "RadialTangential8", "Equidistant"}

\* line 110: matches.find(kid) == matches.end()
NoAssociation(m, kid) == kid \notin DOMAIN m

\* line 116: lmId == 0
IsSentinel(lmId) == lmId = NoLandmark

\* mutant: only w = 0 counts as a point at infinity
AtInfinity_ZeroOnly(hp) == hp[4] = 0

\* line 123: fabs(hp[3]) < 1.0e-8
AtInfinity(hp) == Abs(hp[4]) < WEps

\* line 127: hp.head<3>() / hp[3]
Dehomogenize(hp) == <<Div(hp[1], hp[4]), Div(hp[2], hp[4]), Div(hp[3], hp[4])>>

\* lines 134-135, 142: sqrt(2) * keypointStdDev^2 / fu^2 with keypointStdDev = 0.8 * size / 12.0,
\* kept as the rational factor of sqrt(2): <<numerator, denominator>>
SigmaAngle(size, focal) ==
    [sqrt2Times |-> <<(8 * size) * (8 * size), (120 * focal) * (120 * focal)>>]

\* mutant: the result of a failed back-projection is used as it is
BearingOrFallback_NoFallback(bp) == bp.bearing

\* lines 130, 136-139: the bearing before normalization
BearingOrFallback(bp) == IF ~bp.ok THEN <<1, 0, 0>> ELSE bp.bearing

\* lines 108-153: what one iteration of the keypoint loop does with keypoint (cam, kp)
KeypointOutcome(pts, m, frameId, cam, kp) ==
    LET kid == KeypointIdentifier(frameId, cam, kp)
    IN  IF NoAssociation(m, kid) THEN "skip"
        ELSE IF IsSentinel(m[kid]) THEN "skip"
        ELSE IF m[kid] \notin DOMAIN pts THEN "throw"   \* points.at(lmId): std::out_of_range
        ELSE IF AtInfinity(pts[m[kid]]) THEN "skip"
        ELSE "accept"

\* keypoints of the cameras of frameB read so far
KeypointsRead(f) ==
    LET RECURSIVE Sum(_)
        Sum(n) == IF n = 0 THEN 0 ELSE f.numKeypoints[n] + Sum(n - 1)
    IN  Sum(Len(f.numKeypoints))

\* no accessor has been called
NoRead == [accessor |-> "none", index |-> 0, result |-> [defined |-> FALSE, value |-> <<>>]]

\* the constructor is entered with the landmark table pts and the rig ncs
AdapterEntry(pts, ncs) ==
    /\ points = pts
    /\ nCameraSystem = ncs
    /\ matches = ForeignMatches
    /\ frameB = [id |-> FrameBId, numKeypoints |-> <<>>, backProjection |-> <<>>]
    /\ pc = "distortion"
    /\ im = 0
    /\ k = 0
    /\ distortionType = "unset"
    /\ fu = 1
    /\ points_ = <<>>
    /\ bearingVectors_ = <<>>
    /\ sigmaAngles_ = <<>>
    /\ camIndices_ = <<>>
    /\ keypointIndices_ = <<>>
    /\ camOffsets_ = <<>>
    /\ camRotations_ = <<>>
    /\ exception = "none"
    /\ lastRead = NoRead

AdapterInit ==
    \E pts \in PointsTables, n \in 1..MaxCameras :
        \E ncs \in [1..n -> DistortionTypes] : AdapterEntry(pts, ncs)

\* no builder is under construction: the state of the other specifications
AdapterParked ==
    AdapterEntry(CHOOSE pts \in PointsTables : TRUE, <<"Equidistant">>)

\* lines 60-67: find the distortion type and check that the rig is not mixed
CheckDistortionType ==
    /\ pc = "distortion"
    /\ distortionType' = DistortionTypeOf(nCameraSystem, 0)
    /\ IF MixedDistortionTypes(nCameraSystem)
       THEN /\ pc' = "thrown"
            /\ exception' = "mixed frame types are not supported yet"
       ELSE /\ pc' = "camera"
            /\ exception' = exception
    /\ UNCHANGED <<adapterArgs, im, k, fu, adapterArrays, lastRead, residualVars, componentVars>>

\* lines 69-107: the head of one iteration of the camera loop
CameraSetup ==
    /\ pc = "camera"
    /\ \E numK \in 0..(MaxKeypoints - KeypointsRead(frameB)) :
         /\ frameB' = [frameB EXCEPT !.numKeypoints = Append(@, numK)]
         /\ camOffsets_' = Push(camOffsets_, T_SC(im).r)
         /\ camRotations_' = Push(camRotations_, T_SC(im).C)
         /\ IF distortionType \in SupportedDistortionTypes
            THEN /\ fu' = FocalLengthU(im)
                 /\ exception' = exception
                 /\ IF numK > 0
                    THEN pc' = "keypoint" /\ im' = im /\ k' = 0
                    ELSE IF im + 1 < NumCameras(nCameraSystem)
                    THEN pc' = "camera" /\ im' = im + 1 /\ k' = 0
                    ELSE pc' = "done" /\ im' = im + 1 /\ k' = 0
            ELSE /\ pc' = "thrown"
                 /\ exception' = "Unsupported distortion type"
                 /\ UNCHANGED <<fu, im, k>>
    /\ UNCHANGED <<points, nCameraSystem, matches, distortionType,
                   points_, bearingVectors_, sigmaAngles_, camIndices_, keypointIndices_,
                   lastRead, residualVars, componentVars>>

\* lines 108-153: one iteration of the keypoint loop
ProcessKeypoint ==
    /\ pc = "keypoint"
    /\ \E entry \in MatchOptions, bp \in BackProjections(im, k) :
         LET kid     == KeypointIdentifier(frameB.id, im, k)
             m       == IF entry.present THEN (kid :> entry.lmId) @@ matches ELSE matches
             outcome == KeypointOutcome(points, m, frameB.id, im, k)
             numK    == frameB.numKeypoints[im + 1]
         IN  /\ matches' = m
             /\ IF outcome = "accept"
                THEN /\ points_' = Push(points_, Dehomogenize(points[m[kid]]))
                     /\ sigmaAngles_' = Push(sigmaAngles_, SigmaAngle(KeypointSize(im, k), fu))
                     /\ frameB' = [frameB EXCEPT !.backProjection = (<<im, k>> :> bp) @@ @]
                     /\ bearingVectors_' = Push(bearingVectors_, Normalize3(BearingOrFallback(bp)))
                     /\ camIndices_' = Push(camIndices_, im)
                     /\ keypointIndices_' = Push(keypointIndices_, k)
                ELSE UNCHANGED <<frameB, points_, sigmaAngles_, bearingVectors_, camIndices_,
                                 keypointIndices_>>
             /\ IF outcome = "throw"
                THEN /\ pc' = "thrown"
                     /\ exception' = "out_of_range"
                     /\ UNCHANGED <<im, k>>
                ELSE /\ exception' = exception
                     /\ IF k + 1 < numK
                        THEN pc' = "keypoint" /\ im' = im /\ k' = k + 1
                        ELSE IF im + 1 < NumCameras(nCameraSystem)
                        THEN pc' = "camera" /\ im' = im + 1 /\ k' = 0
                        ELSE pc' = "done" /\ im' = im + 1 /\ k' = 0
    /\ UNCHANGED <<points, nCameraSystem, distortionType, fu, camOffsets_, camRotations_,
                   lastRead, residualVars, componentVars>>

\* mutant: the size of a per-camera array is returned
getNumberCorrespondences_CamOffsets == Len(camOffsets_)

\* lines 186-189
getNumberCorrespondences == Len(points_)

\* std::vector::operator[] with index from 0: the element, or a read past the end
OutOfBounds == [defined |-> FALSE, value |-> <<>>]
ElementAt(v, index) ==
    IF index < Len(v) THEN [defined |-> TRUE, value |-> v[index + 1]] ELSE OutOfBounds

\* lines 158-162
getBearingVector(index) == ElementAt(bearingVectors_, index)

\* lines 165-169
getPoint(index) == ElementAt(points_, index)

\* mutant: the per-camera array is indexed by the correspondence
getCamOffset_ByCorrespondence(index) == ElementAt(camOffsets_, index)

\* lines 172-175: camOffsets_[camIndices_[index]]
getCamOffset(index) ==
    LET cam == ElementAt(camIndices_, index)
    IN  IF cam.defined THEN ElementAt(camOffsets_, cam.value) ELSE OutOfBounds

\* lines 178-181: camRotations_[camIndices_[index]]
getCamRotation(index) ==
    LET cam == ElementAt(camIndices_, index)
    IN  IF cam.defined THEN ElementAt(camRotations_, cam.value) ELSE OutOfBounds

\* lines 192-195
getSigmaAngle(index) == ElementAt(sigmaAngles_, index)

\* the indices the accessors are called with on the constructed builder: those below
\* getNumberCorrespondences()
CorrespondenceIndices == 0..(getNumberCorrespondences - 1)

\* the accessor name has returned result for index; it is const, so what a call
\* returns does not depend on the calls before it, and each builder is followed
\* through one call
Returned(name, index, result) ==
    /\ lastRead = NoRead
    /\ lastRead' = [accessor |-> name, index |-> index, result |-> result]
    /\ UNCHANGED <<adapterArgs, adapterLocals, adapterArrays, exception,
                   residualVars, componentVars>>

GetBearingVector ==
    /\ pc = "done"
    /\ \E index \in CorrespondenceIndices :
         Returned("getBearingVector", index, getBearingVector(index))

GetPoint ==
    /\ pc = "done"
    /\ \E index \in CorrespondenceIndices : Returned("getPoint", index, getPoint(index))

GetCamOffset ==
    /\ pc = "done"
    /\ \E index \in CorrespondenceIndices :
         Returned("getCamOffset", index, getCamOffset(index))

GetCamRotation ==
    /\ pc = "done"
    /\ \E index \in CorrespondenceIndices :
         Returned("getCamRotation", index, getCamRotation(index))

GetSigmaAngle ==
    /\ pc = "done"
    /\ \E index \in CorrespondenceIndices :
         Returned("getSigmaAngle", index, getSigmaAngle(index))

(***************************************************************************)
(* Linear algebra.  A vector is a sequence, a matrix a sequence of rows;   *)
(* the code's indices from 0 are the model's indices from 1.               *)
(***************************************************************************)
\* a vector and a matrix with every element evaluated
Vector(f) == f \o <<>>
Matrix(f) == [i \in DOMAIN f |-> f[i] \o <<>>] \o <<>>

Rows(M) == Len(M)
Cols(M) == Len(M[1])

\* setZero / setIdentity
ZeroMatrix(n, m) == Matrix([i \in 1..n |-> [j \in 1..m |-> 0]])
IdentityMatrix(n) == Matrix([i \in 1..n |-> [j \in 1..n |-> IF i = j THEN 1 ELSE 0]])

\* sum of f[1..n]
RECURSIVE SumTo(_, _)
SumTo(f, n) == IF n = 0 THEN 0 ELSE f[n] + SumTo(f, n - 1)

MatMul(A, B) ==
    Matrix(
    [i \in 1..Rows(A) |-> [j \in 1..Cols(B) |->
        SumTo([l \in 1..Cols(A) |-> A[i][l] * B[l][j]], Cols(A))]])

MatVec(A, v) ==
    Vector(
    [i \in 1..Rows(A) |-> SumTo([l \in 1..Cols(A) |-> A[i][l] * v[l]], Cols(A))])

Transpose(A) == Matrix([j \in 1..Cols(A) |-> [i \in 1..Rows(A) |-> A[i][j]]])

MatScale(c, A) == Matrix([i \in 1..Rows(A) |-> [j \in 1..Cols(A) |-> c * A[i][j]]])

VecSub(a, b) == Vector([i \in 1..Len(a) |-> a[i] - b[i]])
VecAdd(a, b) == Vector([i \in 1..Len(a) |-> a[i] + b[i]])
VecScale(c, a) == Vector([i \in 1..Len(a) |-> c * a[i]])

\* M.block<r, c>(i0, j0) = B, with i0 and j0 counted from 0
SetBlock(M, i0, j0, B) ==
    Matrix(
    [i \in 1..Rows(M) |-> [j \in 1..Cols(M) |->
        IF i > i0 /\ i <= i0 + Rows(B) /\ j > j0 /\ j <= j0 + Cols(B)
        THEN B[i - i0][j - j0] ELSE M[i][j]]])

\* M.topLeftCorner<r, c>()
TopLeftCorner(M, r, c) == Matrix([i \in 1..r |-> [j \in 1..c |-> M[i][j]]])

\* okvis::kinematics::crossMx
crossMx(v) == << <<0, -v[3], v[2]>>, <<v[3], 0, -v[1]>>, <<-v[2], v[1], 0>> >>

(***************************************************************************)
(* Quaternions, as Eigen::Quaterniond::coeffs(): <<x, y, z, w>>.           *)
(***************************************************************************)
\* Eigen::Quaterniond(w, x, y, z)
Quaterniond(w, x, y, z) == <<x, y, z, w>>

\* Eigen::Quaterniond::operator*
QuatMul(a, b) ==
    << a[4] * b[1] + a[1] * b[4] + a[2] * b[3] - a[3] * b[2],
       a[4] * b[2] + a[2] * b[4] + a[3] * b[1] - a[1] * b[3],
       a[4] * b[3] + a[3] * b[4] + a[1] * b[2] - a[2] * b[1],
       a[4] * b[4] - a[1] * b[1] - a[2] * b[2] - a[3] * b[3] >>

QuatSquaredNorm(q) == q[1] * q[1] + q[2] * q[2] + q[3] * q[3] + q[4] * q[4]

\* Eigen::Quaterniond::normalized(): the coefficients over their norm
QuatNormalized(q) ==
    LET z == QuatSquaredNorm(q)
    IN  IF z > 0 THEN Vector([i \in 1..4 |-> Div(q[i], Sqrt(z))]) ELSE q

\* Eigen::Quaterniond::inverse(): the conjugate over the squared norm
QuatInverse(q) ==
    LET n2 == QuatSquaredNorm(q)
    IN  IF n2 > 0 THEN <<Div(-q[1], n2), Div(-q[2], n2), Div(-q[3], n2), Div(q[4], n2)>>
        ELSE <<0, 0, 0, 0>>

\* Eigen::Quaterniond::toRotationMatrix
RotationMatrix(q) ==
    LET x == q[1]   y == q[2]   z == q[3]   w == q[4]
    IN  << <<1 - 2 * (y * y + z * z), 2 * (x * y - w * z), 2 * (x * z + w * y)>>,
           <<2 * (x * y + w * z), 1 - 2 * (x * x + z * z), 2 * (y * z - w * x)>>,
           <<2 * (x * z - w * y), 2 * (y * z + w * x), 1 - 2 * (x * x + y * y)>> >>

\* okvis::kinematics::plus: q_AB * q_BC = plus(q_AB) * q_BC.coeffs()
plus(q) ==
    << << q[4], -q[3],  q[2], q[1]>>,
       << q[3],  q[4], -q[1], q[2]>>,
       <<-q[2],  q[1],  q[4], q[3]>>,
       <<-q[1], -q[2], -q[3], q[4]>> >>

\* okvis::kinematics::oplus: q_AB * q_BC = oplus(q_BC) * q_AB.coeffs()
oplus(q) ==
    << << q[4],  q[3], -q[2], q[1]>>,
       <<-q[3],  q[4],  q[1], q[2]>>,
       << q[2], -q[1],  q[4], q[3]>>,
       <<-q[1], -q[2], -q[3], q[4]>> >>

(***************************************************************************)
(* okvis::kinematics::Transformation: position r and unit quaternion q.    *)
(***************************************************************************)
\* Transformation(r_AB, q_AB)
Transformation(r, q) == [r |-> r, q |-> QuatNormalized(q)]

\* Transformation::C()
RotationOf(T) == RotationMatrix(T.q)

\* Transformation::inverse()
TransformationInverse(T) ==
    Transformation(VecScale(-1, MatVec(Transpose(RotationOf(T)), T.r)), QuatInverse(T.q))

\* Transformation::operator*
TransformationMul(A, B) ==
    Transformation(VecAdd(MatVec(RotationOf(A), B.r), A.r), QuatMul(A.q, B.q))

(***************************************************************************)
(* RelativePoseError: members and setInformation.                          *)
(***************************************************************************)
\* Eigen::LLT<information_t>, as llt_inplace<Lower>::unblocked computes it in place on
\* the lower triangle: column col is finished, or the decomposition stops at the first
\* col whose pivot x is not positive and leaves the rest of the matrix as it was
RECURSIVE LLTFrom(_, _)
LLTFrom(mat, col) ==
    IF col > Rows(mat) THEN [m_matrix |-> mat, m_info |-> "Success"]
    ELSE LET x == mat[col][col] - SumTo([j \in 1..(col - 1) |-> mat[col][j] * mat[col][j]], col - 1)
         IN  IF x <= 0 THEN [m_matrix |-> mat, m_info |-> "NumericalIssue"]
             ELSE LLTFrom(
                    Matrix([i \in 1..Rows(mat) |-> [j \in 1..Cols(mat) |->
                        IF j = col /\ i = col THEN Sqrt(x)
                        ELSE IF j = col /\ i > col
                        THEN Div(mat[i][col]
                                   - SumTo([l \in 1..(col - 1) |-> mat[i][l] * mat[col][l]], col - 1),
                                 Sqrt(x))
                        ELSE mat[i][j]]]),
                    col + 1)

LLT(A) == LLTFrom(A, 1)

\* LLT::matrixL(): the lower triangular view of the decomposed matrix
MatrixL(llt) ==
    Matrix([i \in 1..Rows(llt.m_matrix) |-> [j \in 1..Cols(llt.m_matrix) |->
        IF j <= i THEN llt.m_matrix[i][j] ELSE 0]])

\* fraction-free Gauss-Jordan elimination of the augmented matrix aug = [A | I] from
\* column col on; prev is the previous pivot.  Ends with [d * I | d * inverse(A)].
RECURSIVE GaussJordan(_, _, _)
GaussJordan(aug, col, prev) ==
    IF col > Rows(aug) THEN [aug |-> aug, d |-> prev]
    ELSE LET candidates == {p \in col..Rows(aug) : aug[p][col] # 0}
         IN  IF candidates = {} THEN [aug |-> aug, d |-> 0]
             ELSE LET p  == CHOOSE c \in candidates : \A o \in candidates : c <= o
                      sw == Matrix([i \in 1..Rows(aug) |->
                               IF i = col THEN aug[p] ELSE IF i = p THEN aug[col] ELSE aug[i]])
                  IN  GaussJordan(
                        Matrix([i \in 1..Rows(sw) |-> [j \in 1..Cols(sw) |->
                            IF i = col THEN sw[i][j]
                            ELSE Div(sw[col][col] * sw[i][j] - sw[i][col] * sw[col][j], prev)]]),
                        col + 1, sw[col][col])

\* information.inverse(), an exact quotient: the matrix num over the number den;
\* den = 0 stands for the non-finite result on a singular matrix
Inverse(A) ==
    LET n  == Rows(A)
        gj == GaussJordan(Matrix([i \in 1..n |-> [j \in 1..(2 * n) |->
                              IF j <= n THEN A[i][j] ELSE IF j - n = i THEN 1 ELSE 0]]), 1, 1)
        s  == IF gj.d < 0 THEN -1 ELSE 1
    IN  IF gj.d = 0 THEN [num |-> ZeroMatrix(n, n), den |-> 0]
        ELSE [num |-> Matrix([i \in 1..n |-> [j \in 1..n |-> s * gj.aug[i][n + j]]]),
              den |-> s * gj.d]

\* lines 69-75: the members RelativePoseError::setInformation assigns
setInformation(information) ==
    [information_           |-> information,
     covariance_            |-> Inverse(information),
     squareRootInformation_ |-> Transpose(MatrixL(LLT(information)))]

\* lines 58-63: the information of the constructor with variances
VarianceInformation(translationVariance, rotationVariance) ==
    SetBlock(SetBlock(ZeroMatrix(6, 6),
                      0, 0, MatScale(Div(1, translationVariance), IdentityMatrix(3))),
             3, 3, MatScale(Div(1, rotationVariance), IdentityMatrix(3)))

(***************************************************************************)
(* RelativePoseError: input values.                                        *)
(***************************************************************************)
DiagonalMatrix(d) ==
    Matrix([i \in 1..Len(d) |-> [j \in 1..Len(d) |-> IF i = j THEN d[i] ELSE 0]])

\* a lower triangular factor that couples translation and rotation
CoupledFactor ==
    Matrix([i \in 1..6 |-> [j \in 1..6 |->
        IF i = 1 /\ j = 1 THEN 2
        ELSE IF (i = 2 /\ j = 1) \/ (i = 4 /\ j = 1) \/ (i = 5 /\ j = 4) THEN 1
        ELSE IF i = j THEN 1 ELSE 0]])

\* symmetric, with leading minors 1 and -1
IndefiniteMatrix ==
    SetBlock(IdentityMatrix(6), 0, 0, << <<1, 2>>, <<2, 3>> >>)

\* 6x6 matrices given as information: three positive definite ones, then the zero
\* matrix and an indefinite matrix
InformationSet ==
    { IdentityMatrix(6),
      DiagonalMatrix(<<4, 4, 4, 1, 1, 1>>),
      MatMul(CoupledFactor, Transpose(CoupledFactor)),
      ZeroMatrix(6, 6),
      IndefiniteMatrix }

\* variances whose reciprocal is exact in the integers
VarianceSet == {1, -1}

\* measured relative transforms T_AB. Of the relative transforms that two blocks of
\* PoseSet estimate, the first three have the translation and the rotation of one, or
\* differ from it in both; the fourth has the translation of one and another rotation
\* about another axis, the fifth the translation of the identity and a half turn
MeasurementSet ==
    { Transformation(<<0, 0, 0>>, Quaterniond(1, 0, 0, 0)),
      Transformation(<<1, 0, 0>>, Quaterniond(0, 0, 0, 1)),
      Transformation(<<0, -1, 2>>, Quaterniond(0, 1, 0, 0)),
      Transformation(<<1, 0, 0>>, Quaterniond(0, 1, 0, 0)),
      Transformation(<<0, 0, 0>>, Quaterniond(0, 0, 0, 1)) }

\* pose parameter blocks <<x, y, z, qx, qy, qz, qw>>; the third holds a quaternion that
\* is not normalized and is the negative of the second's after normalization
PoseSet ==
    { <<0, 0, 0, 0, 0, 0, 1>>,
      <<1, 0, 0, 0, 0, 1, 0>>,
      <<1, 0, 0, 0, 0, -2, 0>>,
      <<2, 0, -1, 1, 0, 0, 0>> }

\* the parameter sets <<pose A, pose B>> handed to concurrent evaluations, each thread
\* with a set of its own
ConcurrentParameterSets ==
    << << <<2, 0, -1, 1, 0, 0, 0>>, <<1, 0, 0, 0, 0, 1, 0>> >>,
       << <<0, 0, 0, 0, 0, 0, 1>>, <<1, 0, 0, 0, 0, -2, 0>> >>,
       << <<0, 0, 0, 0, 0, 0, 1>>, <<0, 0, 0, 0, 0, 0, 1>> >> >>
ConcurrentParameters(t) ==
    ConcurrentParameterSets[((t - 1) % Len(ConcurrentParameterSets)) + 1]

\* a double** argument: the null pointer, or an array of two pointers p[1], p[2] of
\* which each is null (FALSE) or points to a buffer of the caller (TRUE)
NullArray == [array |-> FALSE, p |-> <<FALSE, FALSE>>]
PointerArrays == {NullArray} \cup {[array |-> TRUE, p |-> <<a, b>>] : a, b \in BOOLEAN}

\* the double** arguments handed to concurrent evaluations
ConcurrentPointerArrays == {[array |-> TRUE, p |-> <<TRUE, TRUE>>]}

\* a buffer of the caller that the call has not written to, and one it wrote v to
Unwritten == [written |-> FALSE, value |-> <<>>]
Written(v) == [written |-> TRUE, value |-> v]

(***************************************************************************)
(* RelativePoseError: Evaluate and EvaluateWithMinimalJacobians.           *)
(***************************************************************************)
\* the members as an evaluation reads them when no other thread is inside
\* setInformation; incoming is the value that line 74 of a setInformation in progress is
\* copying into squareRootInformation_, here none other than the value it holds
Members ==
    [T_AB_ |-> T_AB_, information_ |-> information_, covariance_ |-> covariance_,
     squareRootInformation_ |-> squareRootInformation_,
     incoming |-> squareRootInformation_]

\* the members an evaluation reads (T_AB_ and squareRootInformation_) while another
\* thread may be inside setInformation.  Neither side takes a lock: while line 74 copies
\* the coefficients of the new matrix into squareRootInformation_, a read of a
\* coefficient returns the one it held or the one coming in (a data race)
RacingMembers ==
    [T_AB_ |-> T_AB_,
     squareRootInformation_ |-> squareRootInformation_,
     incoming |-> IF writer.pc = "line74" THEN writer.squareRootInformation
                  ELSE squareRootInformation_]

\* every sequence that takes its n-th element from the n-th set
RECURSIVE Choices(_)
Choices(sets) ==
    IF Len(sets) = 0 THEN {<<>>}
    ELSE {<<x>> \o rest : x \in sets[1], rest \in Choices(Tail(sets))}

\* the values of the sum over l <= n of squareRootInformation_(i, l) * x[l], each
\* coefficient of the matrix read as the one held or the one coming in
RECURSIVE RacingDot(_, _, _, _)
RacingDot(m, i, x, n) ==
    IF n = 0 THEN {0}
    ELSE {sum + coefficient * x[n] :
            sum \in RacingDot(m, i, x, n - 1),
            coefficient \in {m.squareRootInformation_[i][n], m.incoming[i][n]}}

\* the values squareRootInformation_ * x can take for a vector x: each coefficient of
\* the product reads its row of the matrix for itself
WeightedVectors(m, x) ==
    IF m.incoming = m.squareRootInformation_ THEN {MatVec(m.squareRootInformation_, x)}
    ELSE Choices([i \in 1..Rows(m.squareRootInformation_) |->
                     RacingDot(m, i, x, Len(x))] \o <<>>)

\* the values squareRootInformation_ * B can take for a matrix B
WeightedMatrices(m, B) ==
    IF m.incoming = m.squareRootInformation_ THEN {MatMul(m.squareRootInformation_, B)}
    ELSE Choices([i \in 1..Rows(m.squareRootInformation_) |->
                     Choices([j \in 1..Cols(B) |->
                                 RacingDot(m, i, [l \in 1..Rows(B) |-> B[l][j]], Rows(B))]
                             \o <<>>)] \o <<>>)

\* lines 90-97: T_WA / T_WB from a parameter block
PoseOf(x) == Transformation(<<x[1], x[2], x[3]>>, QuatNormalized(Quaterniond(x[7], x[4], x[5], x[6])))

\* PoseManifold::minusJacobian(x, .): the 6x7 lift of the parameter block x
minusJacobian(x) ==
    LET q_inv   == Quaterniond(x[7], -x[4], -x[5], -x[6])
        Jq_pinv == SetBlock(ZeroMatrix(3, 4), 0, 0, MatScale(2, IdentityMatrix(3)))
    IN  SetBlock(SetBlock(ZeroMatrix(6, 7), 0, 0, IdentityMatrix(3)),
                 3, 3, MatMul(Jq_pinv, oplus(q_inv)))

\* a call that has not started: no arguments, nothing written
IdleCall ==
    [pc |-> "idle", entry |-> "none",
     parameters |-> <<>>, jacobians |-> NullArray, jacobiansMinimal |-> NullArray,
     T_WA |-> Transformation(<<0, 0, 0>>, Quaterniond(1, 0, 0, 0)),
     T_WB |-> Transformation(<<0, 0, 0>>, Quaterniond(1, 0, 0, 0)),
     residuals |-> Unwritten,
     J |-> <<Unwritten, Unwritten>>, Jminimal |-> <<Unwritten, Unwritten>>,
     ret |-> FALSE,
     seen |-> <<>>,      \* the members as line 107 found them
     disturbed |-> FALSE]
                         \* a read of squareRootInformation_ by the call found a
                         \* setInformation copying into it, or a later read found another
                         \* matrix than line 107 did

\* the caller's side of a call: the arguments and fresh output buffers.  Evaluate
\* (lines 78-81) passes nullptr as jacobiansMinimal.
NewCall(entry, parameters, jacobians, jacobiansMinimal) ==
    [IdleCall EXCEPT !.pc = "residual", !.entry = entry, !.parameters = parameters,
                     !.jacobians = jacobians,
                     !.jacobiansMinimal = IF entry = "Evaluate" THEN NullArray
                                          ELSE jacobiansMinimal]

\* mutant: the rotation error is taken between the measurement and itself, so that
\* only the translation is compared
ErrorVector_MeasuredRotationOnly(T_meas, T_WA, T_WB) ==
    LET T_AB == TransformationMul(TransformationInverse(T_WA), T_WB)
        dq   == QuatMul(T_meas.q, QuatInverse(T_meas.q))
    IN  VecSub(T_meas.r, T_AB.r) \o VecScale(2, <<dq[1], dq[2], dq[3]>>)

\* lines 99-103: the error vector of the delta pose
ErrorVector(T_meas, T_WA, T_WB) ==
    LET T_AB == TransformationMul(TransformationInverse(T_WA), T_WB)
        dq   == QuatMul(T_meas.q, QuatInverse(T_AB.q))
    IN  VecSub(T_meas.r, T_AB.r) \o VecScale(2, <<dq[1], dq[2], dq[3]>>)

\* lines 89-103: the error of the call c
ErrorOf(m, c) == ErrorVector(m.T_AB_, PoseOf(c.parameters[1]), PoseOf(c.parameters[2]))

\* lines 89-107: the poses, and the weighted error written to residuals, which line 107
\* computed as weighted
ResidualWritten(m, c, weighted) ==
    [c EXCEPT !.T_WA = PoseOf(c.parameters[1]), !.T_WB = PoseOf(c.parameters[2]),
              !.residuals = Written(weighted),
              !.seen = [m EXCEPT !.incoming = m.squareRootInformation_],
              !.disturbed = m.incoming # m.squareRootInformation_,
              !.pc = "jacobian0"]

\* lines 89-107 with no setInformation in progress
StepResidual(m, c) ==
    ResidualWritten(m, c, MatVec(m.squareRootInformation_, ErrorOf(m, c)))

\* lines 116-121 and 142-146: the minimal Jacobian of pose i (0 or 1) before weighting
UnweightedJacobian(m, T_WA, T_WB, i) ==
    LET T_AW == TransformationInverse(T_WA)
        T_BW == TransformationInverse(T_WB)
        rot  == TopLeftCorner(MatMul(plus(QuatMul(m.T_AB_.q, T_BW.q)), oplus(T_WA.q)), 3, 3)
    IN  IF i = 0
        THEN SetBlock(SetBlock(SetBlock(IdentityMatrix(6),
                 0, 0, RotationOf(T_AW)),
                 0, 3, MatScale(-1, MatMul(RotationOf(T_AW), crossMx(VecSub(T_WB.r, T_WA.r))))),
                 3, 3, rot)
        ELSE SetBlock(SetBlock(IdentityMatrix(6),
                 0, 0, MatScale(-1, RotationOf(T_AW))),
                 3, 3, MatScale(-1, rot))

\* lines 116-122 and 142-147: the minimal Jacobian of pose i with no setInformation in
\* progress
MinimalJacobian(m, T_WA, T_WB, i) ==
    MatMul(m.squareRootInformation_, UnweightedJacobian(m, T_WA, T_WB, i))

\* mutant: the minimal Jacobian is copied out whenever its own pointer is given
WritesMinimal_OwnRequestOnly(c, i) ==
    c.jacobiansMinimal.array /\ c.jacobiansMinimal.p[i + 1]

\* lines 131-137 and 156-162: is the minimal Jacobian of pose i copied out
WritesMinimal(c, i) ==
    c.jacobians.array /\ c.jacobians.p[i + 1]
        /\ c.jacobiansMinimal.array /\ c.jacobiansMinimal.p[i + 1]

\* lines 112-129 and 139-154: is the Jacobian of pose i written
WritesJacobian(c, i) == c.jacobians.array /\ c.jacobians.p[i + 1]

\* mutant: the poses are kept in one place shared by all calls (that of thread 1)
LocalsOf_Shared(cs, t) == [T_WA |-> cs[1].T_WA, T_WB |-> cs[1].T_WB]

\* the locals T_WA, T_WB of a call, on the stack of the calling thread
LocalsOf(cs, t) == [T_WA |-> cs[t].T_WA, T_WB |-> cs[t].T_WB]

\* lines 122-129 and 147-154: the pairs <<minimal Jacobian, Jacobian>> of pose i that
\* the weighting and the lift can give
JacobianPairs(m, parameters, loc, i) ==
    {<<Jmin, MatMul(Jmin, minusJacobian(parameters[i + 1]))>> :
        Jmin \in WeightedMatrices(m, UnweightedJacobian(m, loc.T_WA, loc.T_WB, i))}

\* lines 112-138 (i = 0) and 139-163 (i = 1): the Jacobians of pose i, computed as the
\* pair Js
JacobiansWritten(m, c, i, Js) ==
    [c EXCEPT !.J[i + 1] = IF WritesJacobian(c, i) THEN Written(Js[2]) ELSE @,
              !.Jminimal[i + 1] = IF WritesMinimal(c, i) THEN Written(Js[1]) ELSE @,
              !.disturbed = \/ @
                            \/ /\ WritesJacobian(c, i)
                               /\ \/ m.incoming # m.squareRootInformation_
                                  \/ m.squareRootInformation_ # c.seen.squareRootInformation_,
              !.pc = IF i = 0 THEN "jacobian1" ELSE "return"]

\* lines 112-138 and 139-163 with no setInformation in progress
StepJacobian(m, c, loc, i) ==
    LET Jmin == MinimalJacobian(m, loc.T_WA, loc.T_WB, i)
    IN  JacobiansWritten(m, c, i, <<Jmin, MatMul(Jmin, minusJacobian(c.parameters[i + 1]))>>)

\* line 166
StepReturn(c) == [c EXCEPT !.ret = TRUE, !.pc = "returned"]

\* lines 85-167: a whole call, run alone
EvaluateWithMinimalJacobians(m, c) ==
    LET c1 == StepResidual(m, c)
        c2 == StepJacobian(m, c1, [T_WA |-> c1.T_WA, T_WB |-> c1.T_WB], 0)
        c3 == StepJacobian(m, c2, [T_WA |-> c2.T_WA, T_WB |-> c2.T_WB], 1)
    IN  StepReturn(c3)

\* the calling threads
Threads == 1..NumThreads

\* lines 48-52: the constructor with an information matrix
RelativePoseError(information, T_AB) ==
    [T_AB_ |-> T_AB] @@ setInformation(information)

\* lines 55-66: the constructor with variances
RelativePoseErrorFromVariances(translationVariance, rotationVariance, T_AB) ==
    [T_AB_ |-> T_AB]
        @@ setInformation(VarianceInformation(translationVariance, rotationVariance))

\* no call of setInformation in progress
NoSetInformation == [pc |-> "idle", information |-> <<>>, squareRootInformation |-> <<>>]

\* the members are those of the constructed object obj
MembersAre(obj) ==
    /\ T_AB_ = obj.T_AB_
    /\ information_ = obj.information_
    /\ covariance_ = obj.covariance_
    /\ squareRootInformation_ = obj.squareRootInformation_

\* a residual constructed by either constructor, and no call in progress
ResidualInit ==
    /\ \E T_AB \in MeasurementSet :
         \/ \E information \in InformationSet : MembersAre(RelativePoseError(information, T_AB))
         \/ \E tv \in VarianceSet, rv \in VarianceSet :
               MembersAre(RelativePoseErrorFromVariances(tv, rv, T_AB))
    /\ calls = [t \in Threads |-> IdleCall]
    /\ writer = NoSetInformation

\* the information matrices set while the residual is evaluated concurrently
ConcurrentInformationSet == {IdentityMatrix(6), DiagonalMatrix(<<4, 1, 1, 1, 1, 1>>)}

\* a residual of one measurement constructed with an information matrix, and no call
\* in progress
ConcurrentMeasurement == Transformation(<<1, 0, 0>>, Quaterniond(0, 0, 0, 1))
ReentrantInit ==
    /\ \E information \in ConcurrentInformationSet :
         MembersAre(RelativePoseError(information, ConcurrentMeasurement))
    /\ calls = [t \in Threads |-> IdleCall]
    /\ writer = NoSetInformation

\* the state of the other specifications: one residual, never evaluated
ResidualParked ==
    /\ MembersAre(RelativePoseError(IdentityMatrix(6),
                                    Transformation(<<0, 0, 0>>, Quaterniond(1, 0, 0, 0))))
    /\ calls = [t \in Threads |-> IdleCall]
    /\ writer = NoSetInformation

\* the members setInformation(information) leaves, for each information of a set
AfterSetInformation == {setInformation(information) : information \in InformationSet}
AfterConcurrentSetInformation ==
    {setInformation(information) : information \in ConcurrentInformationSet}

\* the members setInformation leaves when called with the information given
AfterSetInformationOf(information) ==
    CHOOSE obj \in AfterConcurrentSetInformation : obj.information_ = information

\* lines 69-75, called by the one thread that uses the residual: the three members
SetInformation ==
    /\ \E obj \in AfterSetInformation :
         /\ information_' = obj.information_
         /\ covariance_' = obj.covariance_
         /\ squareRootInformation_' = obj.squareRootInformation_
    /\ UNCHANGED <<T_AB_, calls, writer, adapterVars, componentVars>>

\* line 69: a thread calls setInformation while other threads evaluate the residual; it
\* takes no lock and waits for nothing
ConcurrentSetInformation ==
    /\ writer.pc = "idle"
    /\ \E information \in ConcurrentInformationSet :
         writer' = [pc |-> "line70", information |-> information,
                    squareRootInformation |-> <<>>]
    /\ UNCHANGED <<residualMembers, calls, adapterVars, componentVars>>

\* line 70: information_ = information
WriteInformation ==
    /\ writer.pc = "line70"
    /\ information_' = writer.information
    /\ writer' = [writer EXCEPT !.pc = "line71"]
    /\ UNCHANGED <<T_AB_, covariance_, squareRootInformation_, calls, adapterVars, componentVars>>

\* line 71: covariance_ = information.inverse()
WriteCovariance ==
    /\ writer.pc = "line71"
    /\ covariance_' = AfterSetInformationOf(writer.information).covariance_
    /\ writer' = [writer EXCEPT !.pc = "line73"]
    /\ UNCHANGED <<T_AB_, information_, squareRootInformation_, calls, adapterVars, componentVars>>

\* line 73, and line 74 up to its first store: the decomposition of the member
\* information_, of which the factor is about to be copied into squareRootInformation_
DecomposeInformation ==
    /\ writer.pc = "line73"
    /\ writer' = [writer EXCEPT !.pc = "line74",
                     !.squareRootInformation =
                         AfterSetInformationOf(information_).squareRootInformation_]
    /\ UNCHANGED <<residualMembers, calls, adapterVars, componentVars>>

\* line 74 after its last store, and the return: squareRootInformation_ holds the factor
WriteSquareRootInformation ==
    /\ writer.pc = "line74"
    /\ squareRootInformation_' = writer.squareRootInformation
    /\ writer' = NoSetInformation
    /\ UNCHANGED <<T_AB_, information_, covariance_, calls, adapterVars, componentVars>>

\* the optimizer calls Evaluate (lines 78-81)
CallEvaluate ==
    /\ calls[1].pc = "idle"
    /\ \E pA \in PoseSet, pB \in PoseSet, jac \in PointerArrays :
         calls' = [calls EXCEPT ![1] = NewCall("Evaluate", <<pA, pB>>, jac, NullArray)]
    /\ UNCHANGED <<residualMembers, writer, adapterVars, componentVars>>

\* the optimizer calls EvaluateWithMinimalJacobians (lines 85-87)
CallEvaluateWithMinimalJacobians ==
    /\ calls[1].pc = "idle"
    /\ \E pA \in PoseSet, pB \in PoseSet, jac \in PointerArrays, jacMin \in PointerArrays :
         calls' = [calls EXCEPT ![1] =
                      NewCall("EvaluateWithMinimalJacobians", <<pA, pB>>, jac, jacMin)]
    /\ UNCHANGED <<residualMembers, writer, adapterVars, componentVars>>

\* lines 85-167: the call runs to its return
RunCall ==
    /\ calls[1].pc = "residual"
    /\ calls' = [calls EXCEPT ![1] = EvaluateWithMinimalJacobians(Members, @)]
    /\ UNCHANGED <<residualMembers, writer, adapterVars, componentVars>>

\* the caller takes the outputs and its buffers back
ReleaseCall(t) ==
    /\ calls[t].pc = "returned"
    /\ calls' = [calls EXCEPT ![t] = IdleCall]
    /\ UNCHANGED <<residualMembers, writer, adapterVars, componentVars>>

\* thread t calls EvaluateWithMinimalJacobians with buffers of its own
ConcurrentCall(t) ==
    /\ calls[t].pc = "idle"
    /\ \E jac \in ConcurrentPointerArrays :
         calls' = [calls EXCEPT ![t] =
                      NewCall("EvaluateWithMinimalJacobians", ConcurrentParameters(t),
                              jac, jac)]
    /\ UNCHANGED <<residualMembers, writer, adapterVars, componentVars>>

\* the members a concurrent evaluation can find, the parameter sets and the locals of
\* the concurrent calls
ConcurrentMembers ==
    {[T_AB_ |-> ConcurrentMeasurement,
      squareRootInformation_ |-> held.squareRootInformation_,
      incoming |-> coming.squareRootInformation_] :
        held \in AfterConcurrentSetInformation, coming \in AfterConcurrentSetInformation}
ConcurrentParameterRange ==
    {ConcurrentParameterSets[n] : n \in 1..Len(ConcurrentParameterSets)}
ConcurrentLocals ==
    {[T_WA |-> IdleCall.T_WA, T_WB |-> IdleCall.T_WB]}
        \cup {[T_WA |-> PoseOf(ps[1]), T_WB |-> PoseOf(ps[2])] : ps \in ConcurrentParameterRange}

\* WeightedVectors of the error and JacobianPairs for the arguments of the concurrent
\* calls, computed once
ConcurrentWeightedErrors ==
    [a \in ConcurrentMembers \X ConcurrentParameterRange |->
        WeightedVectors(a[1], ErrorVector(a[1].T_AB_, PoseOf(a[2][1]), PoseOf(a[2][2])))]
    @@ <<>>
ConcurrentJacobianPairs ==
    [a \in ConcurrentMembers \X ConcurrentParameterRange \X ConcurrentLocals \X {0, 1} |->
        JacobianPairs(a[1], a[2], a[3], a[4])]
    @@ <<>>

\* lines 89-107 in thread t
RunResidual(t) ==
    /\ calls[t].pc = "residual"
    /\ \E weighted \in ConcurrentWeightedErrors[<<RacingMembers, calls[t].parameters>>] :
         calls' = [calls EXCEPT ![t] = ResidualWritten(RacingMembers, @, weighted)]
    /\ UNCHANGED <<residualMembers, writer, adapterVars, componentVars>>

\* lines 112-138 in thread t
RunJacobian0(t) ==
    /\ calls[t].pc = "jacobian0"
    /\ \E Js \in ConcurrentJacobianPairs[<<RacingMembers, calls[t].parameters,
                                           LocalsOf(calls, t), 0>>] :
         calls' = [calls EXCEPT ![t] = JacobiansWritten(RacingMembers, @, 0, Js)]
    /\ UNCHANGED <<residualMembers, writer, adapterVars, componentVars>>

\* lines 139-166 in thread t
RunJacobian1(t) ==
    /\ calls[t].pc = "jacobian1"
    /\ \E Js \in ConcurrentJacobianPairs[<<RacingMembers, calls[t].parameters,
                                           LocalsOf(calls, t), 1>>] :
         calls' = [calls EXCEPT ![t] =
                      StepReturn(JacobiansWritten(RacingMembers, @, 1, Js))]
    /\ UNCHANGED <<residualMembers, writer, adapterVars, componentVars>>

ResidualNext ==
    \/ SetInformation
    \/ CallEvaluate
    \/ CallEvaluateWithMinimalJacobians
    \/ RunCall
    \/ ReleaseCall(1)

ReentrantNext ==
    \/ ConcurrentSetInformation
    \/ WriteInformation
    \/ WriteCovariance
    \/ DecomposeInformation
    \/ WriteSquareRootInformation
    \/ \E t \in Threads :
         \/ ConcurrentCall(t)
         \/ RunResidual(t)
         \/ RunJacobian0(t)
         \/ RunJacobian1(t)
         \/ ReleaseCall(t)

(***************************************************************************)
(* Component, the session container.  Component.hpp declares the members   *)
(* and the operations; load and save follow section 4.3 of the             *)
(* specification.                                                          *)
(***************************************************************************)
\* the values a member can hold
ImuParameterSets   == {"imu0", "imu1"}
NCameraSystems     == {"rig0", "rig1"}
GraphContents      == {"graph0", "graph1"}
MultiFrameMaps     == {"frames0", "frames1"}

\* the locations load and save are called with
Paths == {"session"}

\* the four parts of a persisted session, in the order they are read
SectionValues == <<ImuParameterSets, NCameraSystems, GraphContents, MultiFrameMaps>>
NumSections == Len(SectionValues)

\* the first n parts of a session, in every combination of values
RECURSIVE SectionsUpTo(_)
SectionsUpTo(n) ==
    IF n = 0 THEN {<<>>}
    ELSE {sec \o <<v>> : sec \in SectionsUpTo(n - 1), v \in SectionValues[n]}

\* a file: missing, or the parts it holds; a file cut short holds less than four
NoFile == [exists |-> FALSE, sections |-> <<>>]
Files ==
    {NoFile} \cup
    { [exists |-> TRUE, sections |-> sec] :
        sec \in UNION {SectionsUpTo(n) : n \in 0..NumSections} }

\* ViGraphEstimator *fullGraph_: nullptr, the address of the graph of the caller, the
\* address of the graph fullGraphOwn_ holds, or the address of a graph that has been
\* destroyed
GraphPointers == {"nullptr", "external", "own", "dangling"}

\* std::unique_ptr<ViGraphEstimator> fullGraphOwn_: empty, or the content of its graph
NoGraph == "none"
OwnedGraphs == {NoGraph} \cup GraphContents

\* a container as a record of its members, with the graph of the caller next to them
ComponentOf(imu, ncs, ptr, own, frames, external) ==
    [imuParameters_ |-> imu, nCameraSystem_ |-> ncs, fullGraph_ |-> ptr,
     fullGraphOwn_ |-> own, multiFrames_ |-> frames, fullGraph |-> external]
ThisComponent ==
    ComponentOf(imuParameters_, nCameraSystem_, fullGraph_, fullGraphOwn_, multiFrames_,
                fullGraph)

\* fullGraph_ != nullptr
HasGraph(c) == c.fullGraph_ # "nullptr"

\* fullGraph_ holds the address of a graph that exists no more
Dangling(c) == c.fullGraph_ = "dangling"

\* *fullGraph_: the content of the graph fullGraph_ points to, when there is one
GraphOf(c) == IF c.fullGraph_ = "own" THEN c.fullGraphOwn_ ELSE c.fullGraph

\* the graph fullGraph_ points to is given the content graph
WithGraph(c, graph) ==
    IF c.fullGraph_ = "own" THEN [c EXCEPT !.fullGraphOwn_ = graph]
    ELSE [c EXCEPT !.fullGraph = graph]

\* the file that holds the state of a container
Serialize(c) ==
    [exists |-> TRUE,
     sections |-> <<c.imuParameters_, c.nCameraSystem_, GraphOf(c), c.multiFrames_>>]

\* can the whole session be read from the file
Complete(file) == file.exists /\ Len(file.sections) = NumSections

\* mutant: load reads each part straight into its member and stops at the failure
load_InPlace(c, file) ==
    LET n  == Len(file.sections)
        c1 == IF n >= 1 THEN [c EXCEPT !.imuParameters_ = file.sections[1]] ELSE c
        c2 == IF n >= 2 THEN [c1 EXCEPT !.nCameraSystem_ = file.sections[2]] ELSE c1
        c3 == IF n >= 3 /\ HasGraph(c) THEN WithGraph(c2, file.sections[3]) ELSE c2
        c4 == IF n >= 4 /\ HasGraph(c) THEN [c3 EXCEPT !.multiFrames_ = file.sections[4]] ELSE c3
    IN  [component |-> c4, ret |-> Complete(file) /\ HasGraph(c)]

\* bool load(path): the calibration, the content of the graph and the frames from the
\* file and true, or no change and false; a container without a graph cannot load
load(c, file) ==
    IF Complete(file) /\ HasGraph(c)
    THEN [component |->
             WithGraph([c EXCEPT !.imuParameters_ = file.sections[1],
                                 !.nCameraSystem_ = file.sections[2],
                                 !.multiFrames_ = file.sections[4]],
                       file.sections[3]),
          ret |-> TRUE]
    ELSE [component |-> c, ret |-> FALSE]

\* what a call of load can leave.  With a session read in full, load writes to the
\* graph through fullGraph_: through a dangling pointer that is undefined behaviour.
\* Each part of the session is then written or not, the graph of the session to a
\* graph that exists or to none, and the call returns either value
loadOutcomes(c, file) ==
    IF Complete(file) /\ Dangling(c)
    THEN [component :
             [imuParameters_ : {c.imuParameters_, file.sections[1]},
              nCameraSystem_ : {c.nCameraSystem_, file.sections[2]},
              fullGraph_     : {c.fullGraph_},
              fullGraphOwn_  : {c.fullGraphOwn_}
                                 \cup (IF c.fullGraphOwn_ # NoGraph THEN {file.sections[3]}
                                       ELSE {}),
              multiFrames_   : {c.multiFrames_, file.sections[4]},
              fullGraph      : {c.fullGraph}
                                 \cup (IF c.fullGraph # NoGraph THEN {file.sections[3]}
                                       ELSE {})],
          ret : BOOLEAN]
    ELSE {load(c, file)}

\* bool save(path): the file replaced as a whole and true, or the file kept and false;
\* a container without a graph cannot save
save(c, file, written) ==
    IF written /\ HasGraph(c) THEN [file |-> Serialize(c), ret |-> TRUE]
                              ELSE [file |-> file, ret |-> FALSE]

\* what a call of save can leave.  save reads the graph through fullGraph_: through a
\* dangling pointer that is undefined behaviour.  The file is then kept, or replaced by
\* the members with whatever was read as the graph, and the call returns either value
saveOutcomes(c, file, written) ==
    IF Dangling(c)
    THEN [file : {file} \cup {[exists |-> TRUE,
                               sections |-> <<c.imuParameters_, c.nCameraSystem_, graph,
                                              c.multiFrames_>>] : graph \in GraphContents},
          ret : BOOLEAN]
    ELSE {save(c, file, written)}

ComponentIs(c) ==
    /\ imuParameters_ = c.imuParameters_
    /\ nCameraSystem_ = c.nCameraSystem_
    /\ fullGraph_ = c.fullGraph_
    /\ fullGraphOwn_ = c.fullGraphOwn_
    /\ multiFrames_ = c.multiFrames_
    /\ fullGraph = c.fullGraph

NoCall == [op |-> "none", path |-> "", ret |-> FALSE]

\* lines 54-57: the constructor with the graph of the caller and frames
BorrowingComponent(imu, ncs, external, frames) ==
    ComponentOf(imu, ncs, "external", NoGraph, frames, external)

\* lines 59-60: the default constructor, which owns a fresh graph
OwningComponent(imu, ncs, external) ==
    ComponentOf(imu, ncs, "own", "graph0", "frames0", external)

\* the two constructors; the storage holds whatever files were there before
ComponentInit ==
    /\ \E imu \in ImuParameterSets, ncs \in NCameraSystems, external \in GraphContents :
         \/ \E frames \in MultiFrameMaps :
               ComponentIs(BorrowingComponent(imu, ncs, external, frames))
         \/ ComponentIs(OwningComponent(imu, ncs, external))
    /\ storage \in [Paths -> Files]
    /\ lastCall = NoCall

\* the state of the other specifications: a default-constructed container and no file
ComponentParked ==
    /\ ComponentIs(OwningComponent("imu0", "rig0", "graph0"))
    /\ storage = [p \in Paths |-> NoFile]
    /\ lastCall = NoCall

Load ==
    \E path \in Paths :
    \E r \in loadOutcomes(ThisComponent, storage[path]) :
        /\ imuParameters_' = r.component.imuParameters_
        /\ nCameraSystem_' = r.component.nCameraSystem_
        /\ fullGraph_' = r.component.fullGraph_
        /\ fullGraphOwn_' = r.component.fullGraphOwn_
        /\ multiFrames_' = r.component.multiFrames_
        /\ fullGraph' = r.component.fullGraph
        /\ lastCall' = [op |-> "load", path |-> path, ret |-> r.ret]
        /\ UNCHANGED <<storage, adapterVars, residualVars>>

Save ==
    \E path \in Paths, written \in BOOLEAN :
    \E r \in saveOutcomes(ThisComponent, storage[path], written) :
        /\ storage' = [storage EXCEPT ![path] = r.file]
        /\ lastCall' = [op |-> "save", path |-> path, ret |-> r.ret]
        /\ UNCHANGED <<componentMembers, fullGraph, adapterVars, residualVars>>

\* fullGraph_ after the graph at the address named by destroyed has been destroyed
AfterDestroying(destroyed) == IF fullGraph_ = destroyed THEN "dangling" ELSE fullGraph_

\* the members are public and the declaration constrains none of them: between calls
\* the owner of the container assigns to a member, edits or replaces a graph, or
\* destroys the graph it once handed to the constructor
EditComponent ==
    /\ \/ \E imu \in ImuParameterSets :
             imuParameters_' = imu
             /\ UNCHANGED <<nCameraSystem_, fullGraph_, fullGraphOwn_, multiFrames_, fullGraph>>
       \/ \E ncs \in NCameraSystems :
             nCameraSystem_' = ncs
             /\ UNCHANGED <<imuParameters_, fullGraph_, fullGraphOwn_, multiFrames_, fullGraph>>
       \/ \E frames \in MultiFrameMaps :
             multiFrames_' = frames
             /\ UNCHANGED <<imuParameters_, nCameraSystem_, fullGraph_, fullGraphOwn_, fullGraph>>
       \* fullGraph_ = nullptr, = fullGraphOwn_.get(), = the address of the graph of the
       \* caller, = an address kept from before: an address is that of the graph found
       \* there, and dangles if there is none
       \/ \E ptr \in GraphPointers :
             /\ fullGraph_' = IF ptr = "own" /\ fullGraphOwn_ = NoGraph THEN "nullptr"
                              ELSE IF ptr = "external" /\ fullGraph = NoGraph THEN "dangling"
                              ELSE ptr
             /\ UNCHANGED <<imuParameters_, nCameraSystem_, fullGraphOwn_, multiFrames_, fullGraph>>
       \* fullGraphOwn_.reset() and fullGraphOwn_.reset(new ViGraphEstimator): the graph
       \* it held is destroyed, fullGraph_ keeps the address it has
       \/ \E own \in OwnedGraphs :
             /\ fullGraphOwn_' = own
             /\ fullGraph_' = AfterDestroying("own")
             /\ UNCHANGED <<imuParameters_, nCameraSystem_, multiFrames_, fullGraph>>
       \* the owned graph is edited where it is
       \/ \E own \in GraphContents :
             /\ fullGraphOwn_ # NoGraph
             /\ fullGraphOwn_' = own
             /\ UNCHANGED <<imuParameters_, nCameraSystem_, fullGraph_, multiFrames_, fullGraph>>
       \* the graph of the caller is edited where it is
       \/ \E external \in GraphContents :
             /\ fullGraph # NoGraph
             /\ fullGraph' = external
             /\ UNCHANGED componentMembers
       \* the caller destroys its graph
       \/ /\ fullGraph # NoGraph
          /\ fullGraph' = NoGraph
          /\ fullGraph_' = AfterDestroying("external")
          /\ UNCHANGED <<imuParameters_, nCameraSystem_, fullGraphOwn_, multiFrames_>>
    /\ lastCall' = NoCall
    /\ UNCHANGED <<storage, adapterVars, residualVars>>

(***************************************************************************)
(* Specifications.                                                         *)
(***************************************************************************)
AdapterNext ==
    \/ CheckDistortionType \/ CameraSetup \/ ProcessKeypoint
    \/ GetBearingVector \/ GetPoint \/ GetCamOffset \/ GetCamRotation \/ GetSigmaAngle

InitAdapter == AdapterInit /\ ResidualParked /\ ComponentParked
SpecAdapter == InitAdapter /\ [][AdapterNext]_vars

InitResidual == ResidualInit /\ AdapterParked /\ ComponentParked
SpecResidual == InitResidual /\ [][ResidualNext]_vars

InitReentrant == ReentrantInit /\ AdapterParked /\ ComponentParked
SpecReentrant == InitReentrant /\ [][ReentrantNext]_vars

ComponentNext == Load \/ Save \/ EditComponent

InitComponent == ComponentInit /\ AdapterParked /\ ResidualParked
SpecComponent == InitComponent /\ [][ComponentNext]_vars

(***************************************************************************)
(* LoopclosureNoncentralAbsoluteAdapter: properties.                       *)
(***************************************************************************)
\* the (camera, keypoint) pairs of the query keyframe examined so far that have an
\* association to a landmark other than the sentinel 0 which is in the table with |w| >= 1e-8
ValidPairs ==
    { kid \in DOMAIN matches :
        /\ kid[1] = frameB.id
        /\ matches[kid] # 0
        /\ matches[kid] \in DOMAIN points
        /\ ~(-10 < points[matches[kid]][4] /\ points[matches[kid]][4] < 10) }

\* the indices (from 1) of the correspondences stored for keypoint kid
IndicesOf(kid) ==
    { i \in 1..Len(camIndices_) :
        i <= Len(keypointIndices_) /\ camIndices_[i] = kid[2] /\ keypointIndices_[i] = kid[3] }

\* every rig camera has the distortion type of camera 0
UniformRig == \A i \in 1..Len(nCameraSystem) : nCameraSystem[i] = nCameraSystem[1]

\* C1: once the builder is constructed, getNumberCorrespondences() is the number of
\* (camera, keypoint) pairs of the keyframe whose identifier is in the association map
\* with a landmark id other than 0 whose landmark has |w| >= 1e-8; keypoints skipped
\* for other reasons and failed back-projections do not change the count.
C1_CountIsValidAssociations ==
    pc = "done" => getNumberCorrespondences = Cardinality(ValidPairs)

\* C1 witness: a finished builder with two correspondences, one of them with a failed
\* back-projection, over a keyframe of three keypoints of which one was skipped.
C1_Witness ==
    /\ pc = "done"
    /\ getNumberCorrespondences = 2
    /\ KeypointsRead(frameB) = 3
    /\ \E p \in DOMAIN frameB.backProjection : ~frameB.backProjection[p].ok

\* C4: with a rig in which a camera i >= 1 differs from camera 0 in its distortion
\* type, construction goes from its first statement to the configuration error only:
\* no camera extrinsic is recorded, no camera or keypoint of the keyframe is read and
\* no correspondence is stored.
C4_MixedRigFailsFirst ==
    ~UniformRig =>
        /\ pc \in {"distortion", "thrown"}
        /\ pc = "thrown" => exception = "mixed frame types are not supported yet"
        /\ camOffsets_ = <<>> /\ camRotations_ = <<>>
        /\ points_ = <<>> /\ bearingVectors_ = <<>> /\ sigmaAngles_ = <<>>
        /\ camIndices_ = <<>> /\ keypointIndices_ = <<>>
        /\ frameB.numKeypoints = <<>> /\ matches = ForeignMatches

\* C4 witness: construction with a mixed rig has thrown.
C4_Witness == ~UniformRig /\ pc = "thrown"

\* C5: every keypoint that passes the three skip checks has exactly one correspondence
\* (point, bearing, sigma, camera index, keypoint index), also when its back-projection
\* failed, and then the bearing stored for it is exactly (1,0,0).
C5_FailedBackProjectionKept ==
    \A kid \in ValidPairs :
        /\ Cardinality(IndicesOf(kid)) = 1
        /\ <<kid[2], kid[3]>> \in DOMAIN frameB.backProjection
        /\ \A i \in IndicesOf(kid) :
              /\ i <= Len(points_) /\ i <= Len(bearingVectors_) /\ i <= Len(sigmaAngles_)
              /\ ~frameB.backProjection[<<kid[2], kid[3]>>].ok => bearingVectors_[i] = <<1, 0, 0>>

\* C5 witness: a correspondence of a keypoint whose back-projection failed is stored.
C5_Witness ==
    \E kid \in ValidPairs :
        /\ <<kid[2], kid[3]>> \in DOMAIN frameB.backProjection
        /\ ~frameB.backProjection[<<kid[2], kid[3]>>].ok
        /\ \E i \in IndicesOf(kid) : bearingVectors_[i] = <<1, 0, 0>>

\* C6: every stored 3D point belongs to a keypoint associated with a landmark of the
\* table with |w| >= 1e-8 and is (x,y,z)/w of that landmark; no landmark with
\* |w| < 1e-8 yields a correspondence.
C6_NoPointAtInfinity ==
    \A i \in 1..Len(points_) :
        /\ i <= Len(camIndices_) /\ i <= Len(keypointIndices_)
        /\ LET kid == <<frameB.id, camIndices_[i], keypointIndices_[i]>>
           IN  /\ kid \in DOMAIN matches
               /\ matches[kid] \in DOMAIN points
               /\ LET hp == points[matches[kid]]
                  IN  /\ hp[4] >= 10 \/ hp[4] <= -10
                      /\ points_[i][1] * hp[4] = hp[1]
                      /\ points_[i][2] * hp[4] = hp[2]
                      /\ points_[i][3] * hp[4] = hp[3]

\* C6 witness: a finished builder that stored the point of the landmark with w = -1e-8
\* and was given associations to landmarks with |w| = 9e-9 and, in the table that has
\* it, w = 0.
C6_Witness ==
    /\ pc = "done"
    /\ <<-2, 0, 4>> \in {points_[i] : i \in 1..Len(points_)}
    /\ \E kid \in DOMAIN matches : matches[kid] = 2

\* C9 (as claimed): with a rig of one distortion type, construction is never aborted
\* by a per-keypoint condition, also not by an association to a landmark id that the
\* landmark table does not hold.
C9_NoPerKeypointAbort ==
    UniformRig => ~(pc = "thrown" /\ exception = "out_of_range")

(***************************************************************************)
(* RelativePoseError: properties.                                          *)
(***************************************************************************)
\* S is the upper triangular square root of A with a positive diagonal: S^T * S = A.
\* A symmetric matrix has such a root exactly when it is positive definite.
IsSquareRootOf(S, A) ==
    /\ MatMul(Transpose(S), S) = A
    /\ \A i \in 1..Rows(S) : S[i][i] > 0 /\ \A j \in 1..(i - 1) : S[i][j] = 0

\* C3 (as claimed): a residual never holds the square-root information of a matrix
\* that is not positive definite, because setting such an information matrix fails:
\* the square-root information held is always a Cholesky factor of the information.
C3_NonPositiveDefiniteRejected ==
    IsSquareRootOf(squareRootInformation_, information_)

\* the estimated relative transform inverse(A) o B of a returned call, from the
\* rotation matrices of the two poses
EstimatedRotation(c) ==
    MatMul(Transpose(RotationOf(PoseOf(c.parameters[1]))), RotationOf(PoseOf(c.parameters[2])))
EstimatedTranslation(c) ==
    MatVec(Transpose(RotationOf(PoseOf(c.parameters[1]))),
           VecSub(PoseOf(c.parameters[2]).r, PoseOf(c.parameters[1]).r))

\* the information the residual held when the call c read its square root at line 107
\* was positive definite
EvaluatedPositiveDefinite(c) ==
    IsSquareRootOf(c.seen.squareRootInformation_, c.seen.information_)

\* C7: with a positive definite information matrix, the residual a call wrote is the
\* zero vector if and only if the estimated relative transform inverse(A) o B has the
\* translation and the rotation of the measured transform.
C7_ZeroResidualIffMeasured ==
    (calls[1].pc = "returned" /\ EvaluatedPositiveDefinite(calls[1])) =>
        /\ calls[1].residuals.written
        /\ (calls[1].residuals.value = <<0, 0, 0, 0, 0, 0>>)
             <=> (/\ EstimatedTranslation(calls[1]) = T_AB_.r
                  /\ EstimatedRotation(calls[1]) = RotationOf(T_AB_))

\* C7 witness: under an information matrix that is not diagonal, a call returned whose
\* estimated relative transform has the translation of the measurement, which is not
\* zero, and another rotation: the residual is not the zero vector.
C7_Witness ==
    /\ calls[1].pc = "returned"
    /\ EvaluatedPositiveDefinite(calls[1])
    /\ calls[1].seen.information_[2][1] # 0
    /\ T_AB_.r # <<0, 0, 0>>
    /\ EstimatedTranslation(calls[1]) = T_AB_.r
    /\ EstimatedRotation(calls[1]) # RotationOf(T_AB_)
    /\ calls[1].residuals.value # <<0, 0, 0, 0, 0, 0>>

\* thread t executes a step of an evaluation: its call in progress moves on
EvaluationStep(t) ==
    /\ calls[t].pc \in {"residual", "jacobian0", "jacobian1"}
    /\ calls'[t] # calls[t]

\* no setInformation was copying into squareRootInformation_ at a read of it by the
\* call c, and none had changed it since the first read
Undisturbed(c) == ~c.disturbed

\* what a call hands back: the buffers and the returned value
OutputsOf(c) == <<c.residuals, c.J, c.Jminimal, c.ret>>

\* the outputs of EvaluateWithMinimalJacobians run alone, with no setInformation in
\* progress, for each matrix the residual can hold and the arguments of each thread
AloneOutputs ==
    [a \in {m \in ConcurrentMembers : m.incoming = m.squareRootInformation_}
               \X ConcurrentParameterRange \X ConcurrentPointerArrays |->
        OutputsOf(EvaluateWithMinimalJacobians(
                      a[1], NewCall("EvaluateWithMinimalJacobians", a[2], a[3], a[3])))]
    @@ <<>>

\* C8: no step of an evaluation changes a member of the residual, and whatever the
\* interleaving of the calls of several threads with buffers of their own, a call
\* during which squareRootInformation_ was not set anew returns with the outputs of
\* the same call run alone.
C8_Reentrant ==
    /\ [][(\E t \in Threads : EvaluationStep(t)) => UNCHANGED residualMembers]_vars
    /\ [](\A t \in Threads :
            (calls[t].pc = "returned" /\ Undisturbed(calls[t])) =>
                OutputsOf(calls[t]) =
                    AloneOutputs[<<calls[t].seen, calls[t].parameters, calls[t].jacobians>>])

\* C8 witness: a call has returned undisturbed while a call of another thread with
\* other parameters is between its residual and its return.
C8_Witness ==
    \E t \in Threads, u \in Threads :
        /\ calls[t].pc = "returned"
        /\ Undisturbed(calls[t])
        /\ calls[t].J[2].written
        /\ calls[u].pc \in {"jacobian0", "jacobian1"}
        /\ calls[u].parameters # calls[t].parameters

\* a pointer of a double** argument is given: the array and its entry i are not null
Given(array, i) == array.array /\ array.p[i + 1]

\* C10 (as claimed): each minimal Jacobian is written when its own pointer is given
\* and each Jacobian when its own pointer is given, whatever else is given; the
\* residual is written and the call returns true.
C10_EachOutputOnItsOwnRequest ==
    calls[1].pc = "returned" =>
        /\ calls[1].residuals.written /\ calls[1].ret
        /\ \A i \in {0, 1} :
              /\ Given(calls[1].jacobiansMinimal, i) => calls[1].Jminimal[i + 1].written
              /\ Given(calls[1].jacobians, i) => calls[1].J[i + 1].written

\* C10 (amended): the 6x7 Jacobian of pose i is written exactly when jacobians[i] is
\* given; the 6x6 minimal Jacobian of pose i is written exactly when both jacobians[i]
\* and jacobiansMinimal[i] are given, and the Jacobian is then the minimal Jacobian
\* times the lift of pose i; what is given for the other pose does not matter.  The
\* residual is written and the call returns true.
C10_MinimalOnlyWithJacobian ==
    calls[1].pc = "returned" =>
        /\ calls[1].residuals.written /\ Len(calls[1].residuals.value) = 6
        /\ calls[1].ret
        /\ \A i \in {0, 1} :
              /\ calls[1].J[i + 1].written <=> Given(calls[1].jacobians, i)
              /\ calls[1].Jminimal[i + 1].written
                    <=> (Given(calls[1].jacobians, i) /\ Given(calls[1].jacobiansMinimal, i))
              /\ calls[1].J[i + 1].written =>
                    Rows(calls[1].J[i + 1].value) = 6 /\ Cols(calls[1].J[i + 1].value) = 7
              /\ calls[1].Jminimal[i + 1].written =>
                    /\ Rows(calls[1].Jminimal[i + 1].value) = 6
                    /\ Cols(calls[1].Jminimal[i + 1].value) = 6
                    /\ calls[1].J[i + 1].value =
                          MatMul(calls[1].Jminimal[i + 1].value,
                                 minusJacobian(calls[1].parameters[i + 1]))

\* C10 witness: a call returned that was given the minimal pointer of pose 0 without
\* the Jacobian pointer of pose 0, and both pointers of pose 1.
C10_Witness ==
    /\ calls[1].pc = "returned"
    /\ Given(calls[1].jacobiansMinimal, 0) /\ ~Given(calls[1].jacobians, 0)
    /\ ~calls[1].Jminimal[1].written
    /\ calls[1].Jminimal[2].written /\ calls[1].J[2].written

(***************************************************************************)
(* Component: properties.                                                  *)
(***************************************************************************)
\* C2: when fullGraph_ is null or points to a graph that exists, a load that returns
\* true leaves the IMU parameters, the calibration, the content of the graph and the
\* frames equal to the persisted state, a load that returns false leaves every member
\* and the graphs as they were; no such load replaces some of them only.
C2_LoadIsAtomic ==
    [][(Load /\ ~Dangling(ThisComponent)) =>
         \E path \in Paths :
            /\ lastCall' = [op |-> "load", path |-> path, ret |-> lastCall'.ret]
            /\ IF lastCall'.ret
               THEN /\ Complete(storage[path])
                    /\ Serialize(ThisComponent)' = storage[path]
                    /\ UNCHANGED fullGraph_
               ELSE UNCHANGED <<componentMembers, fullGraph>>]_vars

\* C2 witness: a load has failed on a file cut short after its first parts, and the
\* container, which points to a graph that exists, still differs from the file in
\* every part the file holds.
C2_Witness ==
    /\ lastCall.op = "load" /\ ~lastCall.ret
    /\ HasGraph(ThisComponent) /\ ~Dangling(ThisComponent)
    /\ storage[lastCall.path].exists
    /\ Len(storage[lastCall.path].sections) = 3
    /\ \A i \in 1..3 : Serialize(ThisComponent).sections[i] # storage[lastCall.path].sections[i]

(***************************************************************************)
(* LoopclosureNoncentralAbsoluteAdapter: the arrays and the accessors.     *)
(***************************************************************************)
\* the cameras whose iteration of the camera loop has begun
CamerasVisited ==
    CASE pc = "distortion" -> 0
      [] pc = "camera"     -> im
      [] pc = "keypoint"   -> im + 1
      [] pc = "done"       -> Len(nCameraSystem)
      [] pc = "thrown"     ->
            IF exception = "mixed frame types are not supported yet" THEN 0 ELSE im + 1

\* keypoint a comes before keypoint b in (camera index, keypoint index) order
ComesBefore(a, b) == a[2] < b[2] \/ (a[2] = b[2] /\ a[3] < b[3])

\* the valid keypoint with exactly n valid keypoints before it
NthValidPair(n) ==
    CHOOSE kid \in ValidPairs : Cardinality({o \in ValidPairs : ComesBefore(o, kid)}) = n

\* what an accessor has to return for keypoint kid = <<frame, camera, keypoint>>
ExpectedOf(name, kid) ==
    CASE name = "getPoint" -> Dehomogenize(points[matches[kid]])
      [] name = "getBearingVector" ->
            LET bp == frameB.backProjection[<<kid[2], kid[3]>>]
            IN  IF bp.ok THEN Normalize3(bp.bearing) ELSE <<1, 0, 0>>
      [] name = "getSigmaAngle" ->
            SigmaAngle(KeypointSize(kid[2], kid[3]), FocalLengthU(kid[2]))
      [] name = "getCamOffset" -> T_SC(kid[2]).r
      [] name = "getCamRotation" -> T_SC(kid[2]).C

\* the accessor name returns, for index, the datum of the keypoint stored at index
ReadsItsKeypoint(name, index, result) ==
    /\ result.defined
    /\ result.value = ExpectedOf(name, NthValidPair(index))

\* some accessor is called
AccessorCall ==
    GetBearingVector \/ GetPoint \/ GetCamOffset \/ GetCamRotation \/ GetSigmaAngle

\* C11: after every step of the constructor and in the finished builder, the five
\* per-correspondence arrays have one length, the two per-camera arrays hold one entry
\* per camera visited, every stored camera index is below that number, and the
\* correspondences are in strictly ascending (camera index, keypoint index) order;
\* so every call of an accessor with an index below getNumberCorrespondences() reads
\* an existing element, that of the valid keypoint with index valid keypoints before
\* it, and no accessor changes an array.
C11_ArraysAligned ==
    /\ [](/\ Len(bearingVectors_) = Len(points_)
          /\ Len(sigmaAngles_) = Len(points_)
          /\ Len(camIndices_) = Len(points_)
          /\ Len(keypointIndices_) = Len(points_)
          /\ Len(camOffsets_) = CamerasVisited
          /\ Len(camRotations_) = CamerasVisited
          /\ \A i \in 1..Len(camIndices_) : camIndices_[i] < Len(camOffsets_)
          /\ \A i \in 1..Len(camIndices_) : \A j \in (i + 1)..Len(camIndices_) :
                ComesBefore(<<FrameBId, camIndices_[i], keypointIndices_[i]>>,
                            <<FrameBId, camIndices_[j], keypointIndices_[j]>>)
          /\ \A index \in CorrespondenceIndices :
                <<FrameBId, camIndices_[index + 1], keypointIndices_[index + 1]>> \in ValidPairs
          /\ lastRead # NoRead =>
                ReadsItsKeypoint(lastRead.accessor, lastRead.index, lastRead.result))
    /\ [][AccessorCall => UNCHANGED adapterArrays]_vars

\* C11 witness: the builder of a rig of two cameras holds two correspondences or more,
\* the first of them of the second camera, whose rotation getCamRotation(0) returned.
C11_Witness ==
    /\ pc = "done"
    /\ Len(nCameraSystem) = 2
    /\ getNumberCorrespondences >= 2
    /\ camIndices_[1] = 1
    /\ lastRead.accessor = "getCamRotation" /\ lastRead.index = 0
    /\ lastRead.result.value = T_SC(1).C
=============================================================================
